---- MODULE Spec2Model ----
(***************************************************************************)
(* Model of the Lorenz 63 dynamic model of DAFI,                           *)
(* source/dyn_models/lorenz.py, class Solver.                              *)
(*                                                                         *)
(* Numbers are integers.  The times (da_interval, dt_interval,             *)
(* next_end_time) are integer-valued floats: on them the float division,   *)
(* int(), ceil() and np.arange of the source are exact, so the model       *)
(* covers no time whose binary representation is rounded (0.1, 0.3, ...).  *)
(* The observation record and the observation noise are in tenths (the     *)
(* additive floor 0.1 of observe is 1 tenth), and the relative standard    *)
(* deviations are whole multipliers.  Vectors and matrices are sequences;  *)
(* the source indexes from 0, and At(v, i) reads source index i.  A matrix *)
(* is the sequence of its rows, as a two dimensional numpy array.          *)
(*                                                                         *)
(* The integrator dopri5 is library code.  It is a function of the state   *)
(* it starts from that the model does not compute: the variable dopri5     *)
(* holds one such function, any one, fixed for the life of the program.    *)
(* It says for every state a call can start from whether the call          *)
(* converges and, when it does not, how far it got.  A start state is the  *)
(* state vector together with the integrator's own memory (its work        *)
(* arrays, which hold what an earlier call left, such as the step size):   *)
(* solver.work is 0 after a reset and 1 once the integrator has run.  The  *)
(* state vectors are the                                                   *)
(* points of the trajectories through the MemberPositions: Flow(p, e) is   *)
(* the name of the point reached from member position p after e time       *)
(* units, a different state for every e; its three numbers are a label,    *)
(* not a computed position.                                                *)
(***************************************************************************)
EXTENDS Integers, Sequences, FiniteSets, TLC

VARIABLES
    perturb_rho, perturb_beta, perturb_sigma,  \* self.perturb_*
    rho, beta, sigma,                          \* self.rho, self.beta, self.sigma
    x_init,                                    \* self.x_init
    num_params,                                \* self.num_params
    nstate,                                    \* self.nstate
    nsamples,                                  \* self.nsamples
    da_interval, dt_interval,                  \* self.da_interval, self.dt_interval
    x_rel_std, obs_rel_std,                    \* self.x_rel_std, self.obs_rel_std
    obs_dat,                                   \* the rows of the file obs.dat
    obs_error,                                 \* self.obs_error (set by observe)
    obs_perturb,                               \* self.obs_perturb (set by observe)
    solver,                                    \* self.solver (set by forecast_to_time)
    dopri5,                                    \* the integrator: outcome of a call by start state
    last                                       \* the last call: operation, arguments, outcome

vars == <<perturb_rho, perturb_beta, perturb_sigma, rho, beta, sigma, x_init,
          num_params, nstate, nsamples, da_interval, dt_interval, x_rel_std,
          obs_rel_std, obs_dat, obs_error, obs_perturb, solver, dopri5,
          last>>

----------------------------------------------------------------------------
(* Bounds of the model.                                                    *)

\* largest ensemble size
MaxSamples == 2
\* largest dt_interval
MaxDt == 2
\* largest da_interval
MaxDa == 3
\* last assimilation step held by the observation record
MaxStep == 1

----------------------------------------------------------------------------
(* Arithmetic and array helpers (numpy and Python semantics).              *)

Abs(v) == IF v < 0 THEN -v ELSE v

\* int(a / b) for integer-valued floats a and b > 0: the float quotient is
\* the correctly rounded a / b, which int() truncates towards zero
TruncDiv(a, b) == IF a >= 0 THEN a \div b ELSE -((-a) \div b)

\* ceil(a / b) for integer-valued floats a and b > 0
CeilDiv(a, b) == -((-a) \div b)

\* v[i] with the source's index, counted from 0
At(v, i) == v[i + 1]

\* M[:, j] (source index j)
Column(M, j) == [r \in 1..Len(M) |-> M[r][j + 1]]

\* numpy's .T of a matrix with ncols columns
Transpose(M, ncols) == [c \in 1..ncols |-> [r \in 1..Len(M) |-> M[r][c]]]

\* A.dot(B) for A of shape m x k and B of shape k x n
RECURSIVE SumTo(_, _)
SumTo(f, k) == IF k = 0 THEN 0 ELSE f[k] + SumTo(f, k - 1)

Dot(A, B, n) ==
    [r \in 1..Len(A) |->
        [c \in 1..n |-> SumTo([k \in 1..Len(B) |-> A[r][k] * B[k][c]], Len(B))]]

----------------------------------------------------------------------------
(* __init__                                                                *)

\* self.nstate_obs = 3
nstate_obs == 3

\* x_init = [x, y, z], then rho, beta, sigma appended when flagged
init_x_init(xyz, pr, pb, ps, r, b, s) ==
    LET a == IF pr THEN Append(xyz, r) ELSE xyz
        c == IF pb THEN Append(a, b) ELSE a
        d == IF ps THEN Append(c, s) ELSE c
    IN d

init_num_params(pr, pb, ps) ==
    (IF pr THEN 1 ELSE 0) + (IF pb THEN 1 ELSE 0) + (IF ps THEN 1 ELSE 0)

----------------------------------------------------------------------------
(* _construct_h_matrix, forward                                            *)

RECURSIVE append_zero_rows(_, _)
append_zero_rows(h_matrix, n) ==
    IF n = 0 THEN h_matrix ELSE append_zero_rows(Append(h_matrix, <<0, 0, 0>>), n - 1)

\* construct_h_matrix with the loop run over range(self.nstate)
construct_h_matrix_per_state ==
    Transpose(append_zero_rows(<<<<1, 0, 0>>, <<0, 1, 0>>, <<0, 0, 1>>>>, nstate), 3)

\* the rows [1,0,0], [0,1,0], [0,0,1], one row [0,0,0] per parameter, transposed
construct_h_matrix ==
    Transpose(append_zero_rows(<<<<1, 0, 0>>, <<0, 1, 0>>, <<0, 0, 1>>>>, num_params), 3)

\* model_obs = h_matrix.dot(X), for X with n columns
forward_obs(X, n) == Dot(construct_h_matrix, X, n)

----------------------------------------------------------------------------
(* lorenz63                                                                *)

\* one "if flag: <assignments>" of lorenz63: p with the assignments made
assign_if(flag, p, assigned) == IF flag THEN assigned ELSE p

\* "if self.perturb_rho: rho = state_vec[3]"
nstate4_rho(p, state_vec) ==
    assign_if(perturb_rho, p, [p EXCEPT !.rho = At(state_vec, 3)])

\* "if self.perturb_beta: beta = state_vec[3]"
nstate4_beta(p, state_vec) ==
    assign_if(perturb_beta, p, [p EXCEPT !.beta = At(state_vec, 3)])

\* "if self.perturb_sigma: sigma = state_vec[3]"
nstate4_sigma(p, state_vec) ==
    assign_if(perturb_sigma, p, [p EXCEPT !.sigma = At(state_vec, 3)])

\* the branch "if self.nstate == 4": the three ifs in sequence
params_nstate4(p, state_vec) ==
    nstate4_sigma(nstate4_beta(nstate4_rho(p, state_vec), state_vec), state_vec)

\* "if not self.perturb_rho: beta = state_vec[3]; sigma = state_vec[4]"
nstate5_not_rho(p, state_vec) ==
    assign_if(~perturb_rho, p,
              [p EXCEPT !.beta = At(state_vec, 3), !.sigma = At(state_vec, 4)])

\* "if self.perturb_beta: rho = state_vec[3]; sigma = state_vec[4]"
nstate5_beta(p, state_vec) ==
    assign_if(perturb_beta, p,
              [p EXCEPT !.rho = At(state_vec, 3), !.sigma = At(state_vec, 4)])

\* "if self.perturb_sigma: rho = state_vec[3]; beta = state_vec[4]"
nstate5_sigma(p, state_vec) ==
    assign_if(perturb_sigma, p,
              [p EXCEPT !.rho = At(state_vec, 3), !.beta = At(state_vec, 4)])

\* the branch "if self.nstate == 5": the three ifs in sequence, a later one
\* overwriting what an earlier one assigned
params_nstate5(p, state_vec) ==
    nstate5_sigma(nstate5_beta(nstate5_not_rho(p, state_vec), state_vec), state_vec)

\* the branch "if self.nstate == 6"
params_nstate6(p, state_vec) ==
    [rho |-> At(state_vec, 3), beta |-> At(state_vec, 4), sigma |-> At(state_vec, 5)]

\* the values of rho, beta and sigma the vector field uses
lorenz_params(state_vec) ==
    IF nstate = 4
    THEN params_nstate4([rho |-> rho, beta |-> beta, sigma |-> sigma], state_vec)
    ELSE IF nstate = 5
    THEN params_nstate5([rho |-> rho, beta |-> beta, sigma |-> sigma], state_vec)
    ELSE IF nstate = 6
    THEN params_nstate6([rho |-> rho, beta |-> beta, sigma |-> sigma], state_vec)
    ELSE [rho |-> rho, beta |-> beta, sigma |-> sigma]

\* the Lorenz equations with the parameters p, zero in every augmented slot
lorenz_field(p, state_vec) ==
    [i \in 1..nstate |->
        IF i = 1 THEN p.sigma * (-At(state_vec, 0) + At(state_vec, 1))
        ELSE IF i = 2 THEN p.rho * At(state_vec, 0) - At(state_vec, 1)
                           - At(state_vec, 0) * At(state_vec, 2)
        ELSE IF i = 3 THEN At(state_vec, 0) * At(state_vec, 1) - p.beta * At(state_vec, 2)
        ELSE 0]

\* lorenz63 with the third equation also written to the first augmented slot
lorenz63_drift(time, state_vec) ==
    [i \in 1..nstate |->
        IF i = 4 THEN lorenz_field(lorenz_params(state_vec), state_vec)[3]
        ELSE lorenz_field(lorenz_params(state_vec), state_vec)[i]]

\* lorenz63(time, state_vec): delta_x
lorenz63(time, state_vec) == lorenz_field(lorenz_params(state_vec), state_vec)

----------------------------------------------------------------------------
(* generate_ensemble                                                       *)

\* the standard normal draws of one call: draw k gives row idim, member j
\* the score ZScore(k, idim, j) in {-1, 0, 1}, scaled by the deviation
ZScore(k, idim, j) == ((k + idim + j) % 3) - 1

\* dx_std = x_rel_std * x_init[idim]
dx_std(idim) == x_rel_std * At(x_init, idim)

\* np.random.normal raises ValueError("scale < 0") when the sign bit of the
\* scale is set; the product of two floats carries the xor of their signs
\* (so 0.0 * -2.39 is -0.0 and is refused too)
scale_refused(a, b) == (a < 0) # (b < 0)

generate_ensemble(k) ==
    IF \E idim \in 0..(nstate - 1) : scale_refused(x_rel_std, At(x_init, idim))
    THEN [exc |-> "ValueError", state_vec |-> <<>>, model_obs |-> <<>>]
    ELSE LET state_vec ==
                 [r \in 1..nstate |->
                     [j \in 1..nsamples |->
                         At(x_init, r - 1) + ZScore(k, r - 1, j - 1) * dx_std(r - 1)]]
         IN [exc |-> "none", state_vec |-> state_vec,
             model_obs |-> forward_obs(state_vec, nsamples)]

----------------------------------------------------------------------------
(* forecast_to_time                                                        *)

\* positions of ensemble members handed to lorenz63, forward, forecast_to_time
MemberPositions == <<<<1, 1, 0>>, <<2, -1, -1>>>>

\* the point of the trajectory through member position p (index of
\* MemberPositions) after e time units
Flow(p, e) ==
    <<MemberPositions[p][1] + e, MemberPositions[p][2], MemberPositions[p][3]>>

\* the member position whose trajectory holds the state y
member_index(y) ==
    CHOOSE p \in 1..Len(MemberPositions) :
        MemberPositions[p][2] = y[2] /\ MemberPositions[p][3] = y[3]

\* the time units that lead from that member position to the state y
elapsed(y) == y[1] - MemberPositions[member_index(y)][1]

\* the outcomes of one integrate call over a step dt: convergence, or failure
\* after reach < dt time units
StepOutcomes(dt) ==
    {[ok |-> TRUE, reach |-> dt]} \cup {[ok |-> FALSE, reach |-> r] : r \in 0..(dt - 1)}

\* the states an integrate call starts from: each member position, with an
\* integrator just reset or one that has run, and the points reached from it
\* at the grid times before the last, with an integrator that has run
StartStates(dt, da) ==
    {<<p, 0, w>> : p \in 1..Len(MemberPositions), w \in {0, 1}}
        \cup {<<p, k * dt, 1>> :
                  p \in 1..Len(MemberPositions), k \in 1..(CeilDiv(da, dt) - 1)}

\* the integrator that converges from every start state
converging(dt, da) == [k \in StartStates(dt, da) |-> [ok |-> TRUE, reach |-> dt]]

\* the integrators: an outcome for every start state
Integrators(dt, da) == [StartStates(dt, da) -> StepOutcomes(dt)]

\* np.arange(start, stop, step) for integer-valued floats and step > 0:
\* ceil((stop - start) / step) points start + i * step
arange(start, stop, step) ==
    LET n == CeilDiv(stop - start, step)
    IN [i \in 1..(IF n > 0 THEN n ELSE 0) |-> start + (i - 1) * step]

\* time_series of forecast_to_time
time_grid(next_end_time) ==
    LET new_start_time == next_end_time - da_interval
    IN arange(new_start_time + dt_interval, next_end_time + dt_interval, dt_interval)

\* ode(self.lorenz63) with set_integrator('dopri5'): no state, success flag set
new_solver == [exists |-> TRUE, y |-> <<>>, t |-> 0, success |-> TRUE, work |-> 0]

\* set_initial_value that stores y and t and does not reset the integrator
set_initial_value_no_reset(s, y, t) == [s EXCEPT !.y = y, !.t = t]

\* solver.set_initial_value(y, t): stores y and t and resets the integrator,
\* which gives it new work arrays and sets its success flag again
set_initial_value(s, y, t) ==
    [s EXCEPT !.y = y, !.t = t, !.success = TRUE, !.work = 0]

\* what scipy stores when the integrator returns with outcome o from a call
\* that covered reach time units from s: the state and the time the
\* integrator reached and the success flag.  An augmented slot moves by the
\* time covered times its derivative k.
step_result(s, reach, o, k) ==
    [s EXCEPT !.y = [i \in 1..Len(s.y) |->
                        IF i <= nstate_obs
                        THEN Flow(member_index(s.y), elapsed(s.y) + reach)[i]
                        ELSE s.y[i] + reach * k[i]],
              !.t = s.t + reach,
              !.success = o.ok,
              !.work = 1]

\* the outcome of a call to t1 started at s: t1 is reached when the integrator
\* converges, an earlier time when it gives up
step_outcome(s, t1, o) ==
    step_result(s, IF o.ok THEN t1 - s.t ELSE o.reach, o, lorenz63(s.t, s.y))

\* solver.integrate(t1): the integrator's outcome for the state it starts from
integrate(s, t1) ==
    step_outcome(s, t1, dopri5[<<member_index(s.y), elapsed(s.y), s.work>>])

\* lines 252-253: the member's state st after the integrator returned s2
\* (st.failed records that some integrate call reported non-convergence)
record_step(st, s2) ==
    [st EXCEPT !.solver = s2,
               !.forecast_state = Append(@, s2.y),
               !.failed = @ \/ ~s2.success]

\* the loop over the grid for one member, from grid index t (source index) on
RECURSIVE grid_loop(_, _, _)
grid_loop(st, time_series, t) ==
    IF t >= Len(time_series) THEN st
    ELSE IF ~st.solver.success THEN [st EXCEPT !.exit = TRUE]
    ELSE grid_loop(record_step(st, integrate(st.solver, At(time_series, t))),
                   time_series, t + 1)

\* the integration of one member, started at the solver s0
member_run(s0, failed, time_series) ==
    grid_loop([solver |-> s0, exit |-> FALSE, failed |-> failed,
               forecast_state |-> <<>>], time_series, 0)

\* line 255: the call's state st after the member's run g
record_member(st, g) ==
    IF g.exit
    THEN [st EXCEPT !.solver = g.solver, !.exit = TRUE, !.failed = g.failed]
    ELSE IF Len(g.forecast_state) = 0
    THEN [st EXCEPT !.solver = g.solver, !.exc = "IndexError"]
    ELSE [st EXCEPT !.solver = g.solver, !.failed = g.failed,
                    !.columns = Append(@, g.forecast_state[Len(g.forecast_state)])]

\* the loop over the members, from member isamp (source index) on;
\* st.columns collects state_vec_forecast[:, isamp], and st.state_vec_current
\* is the caller's array, read again for every member and never assigned
RECURSIVE member_loop(_, _, _)
member_loop(st, time_series, isamp) ==
    IF isamp >= nsamples \/ st.exit \/ st.exc # "none" THEN st
    ELSE member_loop(
             record_member(st,
                 member_run(set_initial_value(st.solver,
                                              Column(st.state_vec_current, isamp),
                                              st.start),
                            st.failed, time_series)),
             time_series, isamp + 1)

\* what forecast_to_time leaves and returns when its loops ended in st
forecast_result(st, time_series) ==
    [solver |-> st.solver,
     exc |-> IF st.exit THEN "SystemExit" ELSE st.exc,
     failed |-> st.failed,
     time_series |-> time_series,
     state_vec_current |-> st.state_vec_current,
     state_vec_forecast |->
         IF st.exit \/ st.exc # "none" THEN <<>>
         ELSE Transpose(st.columns, nstate)]

\* forecast_to_time(state_vec_current, next_end_time): the final solver, whether
\* the call ended in sys.exit(1), the forecast matrix when it returned, and
\* the caller's array as the call leaves it
forecast_to_time(state_vec_current, next_end_time) ==
    forecast_result(
        member_loop([solver |-> new_solver, exit |-> FALSE, exc |-> "none",
                     failed |-> FALSE, columns |-> <<>>,
                     state_vec_current |-> state_vec_current,
                     start |-> next_end_time - da_interval],
                    time_grid(next_end_time), 0),
        time_grid(next_end_time))

----------------------------------------------------------------------------
(* observe, get_obs_error, get_obs                                         *)

\* the row stride of obs.dat: int(da_step) * 10
obs_stride == 10

\* the additive floor of the observation deviation: 0.1, one tenth
obs_std_floor == 1

\* row[1:-1]
inner_columns(row) == SubSeq(row, 2, Len(row) - 1)

\* obs_std without the additive floor
obs_std_of_no_floor(v) == obs_rel_std * Abs(v)

\* obs_std = obs_rel_std * |obs_vec[i_dim]| + 0.1
obs_std_of(v) == obs_rel_std * Abs(v) + obs_std_floor

\* obs_mat with a draw of its own for every member
replicate_per_member(obs, n) == [r \in 1..Len(obs) |-> [c \in 1..n |-> obs[r] + (c - 1)]]

\* the columns obs_mat[:, i] = obs for every member
replicate(obs, n) == [r \in 1..Len(obs) |-> [c \in 1..n |-> obs[r]]]

\* np.tile(obs_vec, (n, 1)).T
tile_T(obs_vec, n) == Transpose([c \in 1..n |-> obs_vec], Len(obs_vec))

\* A - B entrywise
mat_sub(A, B) == [r \in 1..Len(A) |-> [c \in 1..Len(A[r]) |-> A[r][c] - B[r][c]]]

\* sp.diags(v ** 2, 0), dense
diags_sq(v) == [r \in 1..Len(v) |-> [c \in 1..Len(v) |-> IF r = c THEN v[r] * v[r] ELSE 0]]

\* observe(next_end_time) with the standard normal scores z of its three draws
observe(next_end_time, z) ==
    LET da_step == TruncDiv(next_end_time, da_interval)
        idx == da_step * obs_stride
        n == Len(obs_dat)
        none == [exc |-> "IndexError", idx |-> idx, row |-> -1, obs_vec |-> <<>>,
                 obs_std_vec |-> <<>>, obs_mat |-> <<>>, obs_error |-> <<>>,
                 obs_perturb |-> <<>>]
    IN IF idx >= n \/ idx < -n THEN none
       ELSE LET row == IF idx < 0 THEN idx + n ELSE idx
                obs_vec == inner_columns(At(obs_dat, row))
                obs_std_vec == [i \in 1..nstate_obs |-> obs_std_of(obs_vec[i])]
                obs == [i \in 1..nstate_obs |-> obs_vec[i] + z[i] * obs_std_vec[i]]
                obs_mat == replicate(obs, nsamples)
            IN IF \E i \in 1..nstate_obs : obs_std_vec[i] < 0
               THEN [none EXCEPT !.exc = "ValueError", !.row = row, !.obs_vec = obs_vec]
               ELSE [exc |-> "none", idx |-> idx, row |-> row, obs_vec |-> obs_vec,
                     obs_std_vec |-> obs_std_vec, obs_mat |-> obs_mat,
                     obs_error |-> diags_sq(obs_std_vec),
                     obs_perturb |-> mat_sub(obs_mat, tile_T(obs_vec, nsamples))]

----------------------------------------------------------------------------
(* State after construction, and the inputs of the calls.                  *)

Unset == [set |-> FALSE, m |-> <<>>]

NoParams == [rho |-> 0, beta |-> 0, sigma |-> 0]

NoCall ==
    [op |-> "init", exc |-> "none", time |-> 0, state |-> <<>>, ret |-> <<>>,
     ret2 |-> <<>>, ret3 |-> <<>>, idx |-> 0, row |-> -1, obs_vec |-> <<>>,
     obs_std_vec |-> <<>>, failed |-> FALSE, time_series |-> <<>>,
     params |-> NoParams, state_after |-> <<>>, config |-> <<>>]

\* row r (source index) of obs.dat: time, x_obs, y_obs, z_obs, a last column
obs_dat_row(r) == <<r, (r % 3) - 1, r \div obs_stride, 2 - (r % 5), 0>>

\* obs.dat holding the steps 0..steps, obs_stride rows apart
obs_dat_of(steps) == [r \in 1..(steps * obs_stride + 1) |-> obs_dat_row(r - 1)]

AllFlags == BOOLEAN \X BOOLEAN \X BOOLEAN

\* reference positions: one with a negative entry, both with a zero entry
RefPositions == {<<-2, 0, 1>>, <<1, 0, 2>>}

\* reference values of rho, beta, sigma
RefParams == [rho |-> 2, beta |-> 1, sigma |-> 3]

\* the state after __init__ for a configuration drawn from the given sets,
\* with any integrator or, for operations that never integrate, a single one
InitFrom(Flags, Positions, XRel, ObsRel, Samples, Dts, Das, Steps, any) ==
    \E fl \in Flags, xyz \in Positions, xr \in XRel, orl \in ObsRel,
       ns \in Samples, dt \in Dts, da \in Das, st \in Steps :
        /\ perturb_rho = fl[1]
        /\ perturb_beta = fl[2]
        /\ perturb_sigma = fl[3]
        /\ rho = RefParams.rho
        /\ beta = RefParams.beta
        /\ sigma = RefParams.sigma
        /\ x_init = init_x_init(xyz, fl[1], fl[2], fl[3], RefParams.rho,
                                RefParams.beta, RefParams.sigma)
        /\ num_params = init_num_params(fl[1], fl[2], fl[3])
        /\ nstate = Len(init_x_init(xyz, fl[1], fl[2], fl[3], RefParams.rho,
                                    RefParams.beta, RefParams.sigma))
        /\ nsamples = ns
        /\ da_interval = da
        /\ dt_interval = dt
        /\ x_rel_std = xr
        /\ obs_rel_std = orl
        /\ obs_dat = obs_dat_of(st)
        /\ obs_error = Unset
        /\ obs_perturb = Unset
        /\ solver = [exists |-> FALSE, y |-> <<>>, t |-> 0, success |-> TRUE,
                     work |-> 0]
        /\ dopri5 \in IF any THEN Integrators(dt, da) ELSE {converging(dt, da)}
        /\ last = NoCall

\* values held by the augmented slots 3, 4, 5 of a member: all different from
\* each other and from the reference rho, beta, sigma
SlotValues == <<4, 5, 6>>

\* member state vector i (from 0) of length nstate
MemberAt(i) == At(MemberPositions, i) \o SubSeq(SlotValues, 1, num_params)

Members == {MemberAt(i) : i \in 0..(Len(MemberPositions) - 1)}

\* ensembles of shape nstate x nsamples: the members a, a + b, a + 2b, ...
\* taken cyclically (every ordered pair of members when nsamples = 2)
Ensembles ==
    {Transpose([j \in 1..nsamples |->
                   MemberAt((a + (j - 1) * b) % Len(MemberPositions))], nstate) :
        a \in 0..(Len(MemberPositions) - 1), b \in 0..(Len(MemberPositions) - 1)}

\* end times handed to forecast_to_time: the end of each assimilation window
ForecastTimes == {k * da_interval : k \in 1..(MaxStep + 1)}

\* end times handed to observe: whole steps on both sides of the record,
\* and times between two steps
ObserveTimes ==
    {k * da_interval : k \in (-(MaxStep + 1))..(MaxStep + 1)} \cup {-1, da_interval + 1}

\* the standard normal scores of the three draws of one observe call
NoiseDraws == {<<0, 0, 0>>, <<1, -1, 0>>, <<-1, 1, 1>>}

\* the draws of one generate_ensemble call
EnsembleDraws == 0..2

----------------------------------------------------------------------------
(* The operations.                                                         *)

\* the flags, parameters and dimensions set by __init__
configuration ==
    <<perturb_rho, perturb_beta, perturb_sigma, rho, beta, sigma, nstate, nsamples>>

Frame == UNCHANGED <<perturb_rho, perturb_beta, perturb_sigma, rho, beta, sigma,
                     x_init, num_params, nstate, nsamples, da_interval,
                     dt_interval, x_rel_std, obs_rel_std, obs_dat, dopri5>>

GenerateEnsemble ==
    \E k \in EnsembleDraws :
        /\ last' = [NoCall EXCEPT !.op = "generate_ensemble",
                                  !.exc = generate_ensemble(k).exc,
                                  !.ret = generate_ensemble(k).state_vec,
                                  !.ret2 = generate_ensemble(k).model_obs]
        /\ UNCHANGED <<obs_error, obs_perturb, solver>>
        /\ Frame

Lorenz63 ==
    \E state_vec \in Members :
        /\ last' = [NoCall EXCEPT !.op = "lorenz63", !.state = state_vec,
                                  !.ret = lorenz63(0, state_vec),
                                  !.params = lorenz_params(state_vec)]
        /\ UNCHANGED <<obs_error, obs_perturb, solver>>
        /\ Frame

Forward ==
    \E X \in Ensembles :
        /\ last' = [NoCall EXCEPT !.op = "forward", !.state = X, !.ret = X,
                                  !.ret2 = forward_obs(X, nsamples)]
        /\ UNCHANGED <<obs_error, obs_perturb, solver>>
        /\ Frame

\* the effect of a forecast_to_time call that ended as r
ForecastEffect(r, state_vec_current, next_end_time) ==
    /\ solver' = r.solver
    /\ last' = [NoCall EXCEPT !.op = "forecast_to_time", !.exc = r.exc,
                              !.time = next_end_time,
                              !.state = state_vec_current,
                              !.ret = r.state_vec_forecast,
                              !.failed = r.failed,
                              !.time_series = r.time_series,
                              !.state_after = r.state_vec_current,
                              !.config = configuration]

ForecastToTime ==
    \E state_vec_current \in Ensembles, next_end_time \in ForecastTimes :
        /\ ForecastEffect(forecast_to_time(state_vec_current, next_end_time),
                          state_vec_current, next_end_time)
        /\ UNCHANGED <<obs_error, obs_perturb>>
        /\ Frame

\* the effect on the stored fields of an observe call that ended as r
ObserveEffect(op, next_end_time, r) ==
       /\ obs_error' = IF r.exc = "none" THEN [set |-> TRUE, m |-> r.obs_error]
                       ELSE obs_error
       /\ obs_perturb' = IF r.exc = "none" THEN [set |-> TRUE, m |-> r.obs_perturb]
                         ELSE obs_perturb
       /\ last' = [NoCall EXCEPT !.op = op, !.exc = r.exc, !.time = next_end_time,
                                 !.ret = r.obs_mat, !.ret2 = r.obs_perturb,
                                 !.ret3 = IF op = "get_obs" THEN r.obs_error ELSE <<>>,
                                 !.idx = r.idx, !.row = r.row,
                                 !.obs_vec = r.obs_vec,
                                 !.obs_std_vec = r.obs_std_vec]

Observe ==
    \E next_end_time \in ObserveTimes, z \in NoiseDraws :
        /\ ObserveEffect("observe", next_end_time, observe(next_end_time, z))
        /\ UNCHANGED solver
        /\ Frame

\* get_obs: observe, then get_obs_error on the field observe has just set
GetObs ==
    \E next_end_time \in ObserveTimes, z \in NoiseDraws :
        /\ ObserveEffect("get_obs", next_end_time, observe(next_end_time, z))
        /\ UNCHANGED solver
        /\ Frame

\* self.obs_error.todense(): AttributeError while observe has not set the field
get_obs_error ==
    IF obs_error.set THEN [exc |-> "none", ret |-> obs_error.m]
    ELSE [exc |-> "AttributeError", ret |-> <<>>]

GetObsError ==
    /\ last' = [NoCall EXCEPT !.op = "get_obs_error", !.exc = get_obs_error.exc,
                              !.ret = get_obs_error.ret]
    /\ UNCHANGED <<obs_error, obs_perturb, solver>>
    /\ Frame

\* the propagator: lorenz63 and forecast_to_time
NextForecast ==
    \/ Lorenz63
    \/ ForecastToTime

\* the observation generator: observe, get_obs, get_obs_error
NextObserve ==
    \/ Observe
    \/ GetObs
    \/ GetObsError

\* the ensemble initialiser and the observation operator
NextEnsemble ==
    \/ GenerateEnsemble
    \/ Forward

\* the calls a forecast can follow: forecast_to_time, observe, generate_ensemble
NextHistory ==
    \/ ForecastToTime
    \/ Observe
    \/ GenerateEnsemble

Next ==
    \/ NextForecast
    \/ NextObserve
    \/ NextEnsemble

\* every operation and every integrator, on ensembles of two members and
\* grids of one point
Init ==
    InitFrom({<<FALSE, TRUE, TRUE>>}, {<<1, 1, 2>>}, {1}, {-1, 1}, {2}, {1}, {1}, {1},
             TRUE)

\* every integrator, on ensembles of two members and grids of two points
InitHistory ==
    InitFrom({<<FALSE, TRUE, TRUE>>}, {<<1, 1, 2>>}, {1}, {1}, {2}, {1}, {2}, {1},
             TRUE)

SpecHistory == InitHistory /\ [][NextHistory]_vars

Spec == Init /\ [][Next]_vars

\* every flag configuration and integrator, grids of one and of two points
InitForecast ==
    InitFrom(AllFlags, {<<1, 1, 2>>}, {1}, {1}, 1..MaxSamples, {1, 2}, {2}, {1},
             TRUE)

SpecForecast == InitForecast /\ [][NextForecast]_vars

\* every step and window length, every integrator
InitGrid ==
    InitFrom({<<FALSE, FALSE, FALSE>>}, {<<1, 1, 2>>}, {1}, {1}, {1}, 1..MaxDt,
             1..MaxDa, {1}, TRUE)

SpecGrid == InitGrid /\ [][NextForecast]_vars

\* every observation setting
InitObserve ==
    InitFrom({<<TRUE, FALSE, FALSE>>}, {<<1, 1, 2>>}, {1}, {-1, 0, 1}, 1..MaxSamples,
             {1}, {1, 2}, 1..MaxStep, FALSE)

SpecObserve == InitObserve /\ [][NextObserve]_vars

\* every flag configuration and reference position
InitEnsemble ==
    InitFrom(AllFlags, RefPositions, {1, 2}, {1}, 1..MaxSamples, {1}, {1}, {1},
             FALSE)

SpecEnsemble == InitEnsemble /\ [][NextEnsemble]_vars

----------------------------------------------------------------------------
(* Claims.                                                                 *)

\* the slot (source index) of x_init that __init__ gives each flagged parameter
slot_rho == nstate_obs
slot_beta == nstate_obs + (IF perturb_rho THEN 1 ELSE 0)
slot_sigma == nstate_obs + (IF perturb_rho THEN 1 ELSE 0) + (IF perturb_beta THEN 1 ELSE 0)

\* C1: for every flag configuration and member, lorenz63 uses for a flagged
\* parameter the member's slot that __init__ gave that parameter (order rho,
\* beta, sigma) and for an unflagged parameter the reference constant.
C1_ParamsFollowLayout ==
    last.op = "lorenz63" =>
        /\ perturb_rho => At(x_init, slot_rho) = rho
        /\ perturb_beta => At(x_init, slot_beta) = beta
        /\ perturb_sigma => At(x_init, slot_sigma) = sigma
        /\ last.params.rho = IF perturb_rho THEN At(last.state, slot_rho) ELSE rho
        /\ last.params.beta = IF perturb_beta THEN At(last.state, slot_beta) ELSE beta
        /\ last.params.sigma = IF perturb_sigma THEN At(last.state, slot_sigma) ELSE sigma

\* the number of perturb_* flags that are true
flag_count ==
    (IF perturb_rho THEN 1 ELSE 0) + (IF perturb_beta THEN 1 ELSE 0)
        + (IF perturb_sigma THEN 1 ELSE 0)

\* C2: nstate is 3 plus the number of flags set; the observation operator has
\* shape 3 x nstate, its first three columns the identity and the others zero;
\* applied to an ensemble it returns rows 0..2 of that ensemble.
C2_ObservationOperator ==
    /\ nstate = 3 + flag_count
    /\ Len(construct_h_matrix) = 3
    /\ \A r \in 1..3 :
          /\ Len(construct_h_matrix[r]) = nstate
          /\ \A c \in 1..nstate : construct_h_matrix[r][c] = IF c = r THEN 1 ELSE 0
    /\ (last.op \in {"forward", "generate_ensemble"} /\ last.exc = "none") =>
          /\ Len(last.ret) = nstate
          /\ last.ret2 = SubSeq(last.ret, 1, 3)

\* C2 witness: forward has mapped an ensemble with two augmented rows, both
\* holding non-zero values
C2_Witness ==
    /\ last.op = "forward"
    /\ nstate = 5
    /\ \A r \in 4..5 : \A c \in 1..nsamples : last.ret[r][c] # 0
    /\ Len(last.ret2) = 3

\* C3: lorenz63 returns derivative 0 for every augmented slot, and a completed
\* forecast_to_time returns every augmented row r >= 3 of every member
\* exactly as it was handed in.
C3_AugmentedRowsUnchanged ==
    /\ last.op = "lorenz63" => \A i \in 4..nstate : last.ret[i] = 0
    /\ (last.op = "forecast_to_time" /\ last.exc = "none") =>
          \A r \in 4..nstate : \A j \in 1..nsamples : last.ret[r][j] = last.state[r][j]

\* C3 witness: a completed forecast of an augmented ensemble in which a
\* position row has evolved
C3_Witness ==
    /\ last.op = "forecast_to_time"
    /\ last.exc = "none"
    /\ nstate > 3
    /\ \E r \in 1..3 : \E j \in 1..nsamples : last.ret[r][j] # last.state[r][j]

\* C4: whenever an integration step of any member reported non-convergence,
\* forecast_to_time ended in the fatal exit and returned no forecast.
C4_FailureAborts ==
    (last.op = "forecast_to_time" /\ last.failed) =>
        (last.exc = "SystemExit" /\ last.ret = <<>>)

\* C5: a successful observe returns 3 x nsamples observations whose columns
\* are all the same draw, and perturbations equal to the observations minus
\* the reference observation tiled over the members; the perturbations are
\* also the stored obs_perturb.
C5_OneDrawPerDimension ==
    (last.op \in {"observe", "get_obs"} /\ last.exc = "none") =>
        /\ Len(last.ret) = 3
        /\ Len(last.ret2) = 3
        /\ \A r \in 1..3 :
              /\ Len(last.ret[r]) = nsamples
              /\ Len(last.ret2[r]) = nsamples
              /\ \A c \in 1..nsamples :
                    /\ last.ret[r][c] = last.ret[r][1]
                    /\ last.ret2[r][c] = last.ret[r][c] - last.obs_vec[r]
        /\ obs_perturb = [set |-> TRUE, m |-> last.ret2]

\* C5 witness: observe has returned a noisy observation for two members
C5_Witness ==
    /\ last.op = "observe"
    /\ last.exc = "none"
    /\ nsamples = 2
    /\ \E r \in 1..3 : last.ret2[r][2] # 0

\* a 3 x 3 matrix, zero off the diagonal and positive on it
diagonal_positive(m) ==
    /\ Len(m) = 3
    /\ \A r \in 1..3 :
          /\ Len(m[r]) = 3
          /\ \A c \in 1..3 : IF r = c THEN m[r][c] > 0 ELSE m[r][c] = 0

\* C6 as stated: get_obs_error, called in any state after construction and for
\* any obs_rel_std, returns a 3 x 3 diagonal matrix with positive diagonal.
C6_ObsErrorAlways ==
    last.op = "get_obs_error" =>
        (last.exc = "none" /\ diagonal_positive(last.ret))

\* C6 amended: once an observe call has succeeded, and with obs_rel_std >= 0,
\* get_obs_error returns the stored 3 x 3 matrix, zero off the diagonal and
\* positive on it; the diagonal get_obs returns is the square of
\* obs_rel_std * |reference value| + floor of that call.
C6_ObsErrorAfterObserve ==
    obs_rel_std >= 0 =>
        /\ obs_error.set => diagonal_positive(obs_error.m)
        /\ (last.op = "get_obs_error" /\ obs_error.set) =>
              (last.exc = "none" /\ last.ret = obs_error.m)
        /\ (last.op = "get_obs" /\ last.exc = "none") =>
              /\ last.ret3 = obs_error.m
              /\ \A i \in 1..3 :
                    last.ret3[i][i] = (obs_rel_std * Abs(last.obs_vec[i]) + obs_std_floor)
                                      * (obs_rel_std * Abs(last.obs_vec[i]) + obs_std_floor)

\* C6 witness: get_obs_error has returned a covariance whose second entry is
\* the square of the floor alone (reference value zero)
C6_Witness ==
    /\ last.op = "get_obs_error"
    /\ last.exc = "none"
    /\ obs_rel_std >= 0
    /\ last.ret[2][2] = obs_std_floor * obs_std_floor

\* C7: observe reads the row int(next_end_time / da_interval) * 10 of the
\* record, and when the record has no row of that index, on either side,
\* the call ends in the lookup failure and returns no observation.
C7_LookupOutsideRecordFails ==
    last.op = "observe" =>
        /\ last.idx = TruncDiv(last.time, da_interval) * obs_stride
        /\ (last.idx >= 0 /\ last.idx < Len(obs_dat)) =>
              (last.exc = "none" => last.row = last.idx)
        /\ ~(last.idx >= 0 /\ last.idx < Len(obs_dat)) =>
              (last.exc = "IndexError" /\ last.ret = <<>>)

\* C8: generate_ensemble never fails: it returns an nstate x nsamples
\* ensemble and, as observations, its rows 0..2; a row whose reference value
\* is 0 is 0 throughout.
C8_GenerateEnsembleNeverFails ==
    last.op = "generate_ensemble" =>
        /\ last.exc = "none"
        /\ Len(last.ret) = nstate
        /\ \A r \in 1..nstate :
              /\ Len(last.ret[r]) = nsamples
              /\ x_init[r] = 0 => \A c \in 1..nsamples : last.ret[r][c] = 0
        /\ last.ret2 = SubSeq(last.ret, 1, 3)

\* C9: the time grid of forecast_to_time is start + dt, start + 2 dt, ...,
\* is not empty, increases strictly, and ends exactly at next_end_time.
C9_GridEndsAtEndTime ==
    last.op = "forecast_to_time" =>
        LET ts == last.time_series
        IN /\ Len(ts) > 0
           /\ \A i \in 1..Len(ts) : ts[i] = (last.time - da_interval) + i * dt_interval
           /\ ts[Len(ts)] = last.time

\* an integrator made for one column alone and never used before
fresh(column, t) ==
    [exists |-> TRUE, y |-> column, t |-> t, success |-> TRUE, work |-> 0]

\* the states such an integrator holds after the grid points from index i on,
\* up to and including the first call that fails
RECURSIVE alone_path(_, _, _)
RECURSIVE alone_step(_, _, _)
alone_path(s, time_series, i) ==
    IF i > Len(time_series) \/ ~s.success THEN <<>>
    ELSE alone_step(integrate(s, time_series[i]), time_series, i)

alone_step(s2, time_series, i) == <<s2>> \o alone_path(s2, time_series, i + 1)

\* the path of column i (source index) of the last forecast's input
alone(i) ==
    alone_path(fresh(Column(last.state, i), last.time - da_interval),
               time_grid(last.time), 1)

\* the path stops before the last grid point: a failure the loop tests
stops_early(path) == Len(path) < Len(time_grid(last.time))

\* column i of the forecast is the state at the end of the path
column_is_end_of(path, i) == Column(last.ret, i) = path[Len(path)].y

\* C10: after any history of forecast_to_time, observe and generate_ensemble
\* calls and for any integrator, what forecast_to_time does with column i is
\* what an integrator made for column i alone and never used before does
\* from (next_end_time - da_interval, column i): the call exits exactly when
\* such an integrator fails before the last grid point for some column, and
\* otherwise column i of the forecast is the state that integrator ends in,
\* whatever the other columns, the order of the members and the earlier
\* calls; the input ensemble and the configuration are as before the call.
C10_NoLeakAcrossMembers ==
    last.op = "forecast_to_time" =>
        /\ last.exc \in {"none", "SystemExit"}
        /\ last.exc = "SystemExit" <=>
               \E i \in 0..(nsamples - 1) : stops_early(alone(i))
        /\ last.exc = "none" =>
               \A i \in 0..(nsamples - 1) : column_is_end_of(alone(i), i)
        /\ last.state_after = last.state
        /\ last.config = configuration

\* C10 witness: a completed forecast of two different members, both evolved,
\* made after an observe call had stored its fields, by an integrator that
\* would have ended the second member elsewhere had it not been reset
C10_Witness ==
    /\ last.op = "forecast_to_time"
    /\ last.exc = "none"
    /\ nsamples = 2
    /\ Column(last.state, 0) # Column(last.state, 1)
    /\ \A i \in 0..1 : Column(last.ret, i) # Column(last.state, i)
    /\ obs_error.set
    /\ dopri5[<<member_index(Column(last.state, 1)), 0, 0>>].ok
    /\ ~dopri5[<<member_index(Column(last.state, 1)), 0, 1>>].ok

====
